---- MODULE Spec2Model ----
(***************************************************************************)
(* Model of the Tatt-E API helper types: TattE::TattooRep (src/tatte.cpp,  *)
(* src/Tatt-E/tatte.h) with its reference-counted template buffer and its  *)
(* bounding-box list, and TattE::Image with its size() computation.        *)
(*                                                                         *)
(* Four specifications share the definitions below:                       *)
(*   Spec      - the template buffer, the handles callers keep to it and   *)
(*               copies of a TattooRep;                                    *)
(*   BoxSpec   - the five public methods of TattooRep called in any        *)
(*               serial order on one object;                               *)
(*   LifeSpec  - TattooReps from construction to destruction, with copies; *)
(*   ImageSpec - construction of an Image and Image::size().               *)
(***************************************************************************)
EXTENDS Integers, Sequences, FiniteSets, TLC

\* ---------------------------------------------------------------- bounds
MaxBufs == 2
MaxSize == 2
MaxBoxes == 2

\* ------------------------------------------------------------ basic sets
NULL == 0
Undef == -1
NoSlot == "discard"
NoRep == "none"

Reps == {"a", "b"}
Slots == {"h1"}
BufIds == 1..MaxBufs
ByteSamples == {255}

\* BoundingBox(xin, yin, widthin, heightin, confin)
BoundingBox(xin, yin, widthin, heightin, confin) ==
    [x |-> xin, y |-> yin, width |-> widthin, height |-> heightin,
     confidence |-> confin]

BoxSamples == {BoundingBox(0, 0, 0, 0, 0), BoundingBox(10, 20, 30, 40, 1)}

RECURSIVE SeqsUpTo(_, _)
SeqsUpTo(S, n) ==
    IF n = 0 THEN {<<>>}
    ELSE LET shorter == SeqsUpTo(S, n - 1)
         IN  shorter \cup {Append(q, e) : q \in shorter, e \in S}

VARIABLES heap, rep, slot, ret, callerBoxes, passed, img, sizeRet

vars == <<heap, rep, slot, ret, callerBoxes, passed, img, sizeRet>>
repVars == <<heap, rep, slot, ret, callerBoxes, passed>>
imgVars == <<img, sizeRet>>

\* ------------------------------------------------- heap and shared_ptr
\* A cell of the free store: an array allocated by new uint8_t[size]
\* together with the use count of the shared_ptr control block managing it.
FreeCell == [live |-> FALSE, data |-> <<>>, useCount |-> 0]

FreeIds(hp) == {b \in BufIds : ~hp[b].live}

\* The address operator new hands out: some address not in use (addresses
\* are interchangeable, the least free one stands for all of them).
NewAddress(hp) == CHOOSE b \in FreeIds(hp) : \A c \in FreeIds(hp) : b <= c

\* new uint8_t[size]: size default-initialised (indeterminate) bytes
NewArray_OneExtra(size) == [i \in 1..(size + 1) |-> Undef]
NewArray(size) == [i \in 1..size |-> Undef]

\* Contents of the array installed by resizeTemplate(size) when the
\* TattooRep held an array with contents old: nothing is copied.
ResizedData_Realloc(old, size) ==
    [i \in 1..size |-> IF i <= Len(old) THEN old[i] ELSE Undef]
ResizedData(old, size) == NewArray(size)

\* shared_ptr copy: one more owner
Acquire_NonOwning(hp, p) == hp
Acquire(hp, p) ==
    IF p = NULL THEN hp ELSE [hp EXCEPT ![p].useCount = @ + 1]

\* shared_ptr release: one owner less; the last owner runs delete[]
Release_Leak(hp, p) ==
    IF p = NULL THEN hp ELSE [hp EXCEPT ![p].useCount = @ - 1]
Release_Eager(hp, p) ==
    IF p = NULL THEN hp ELSE [hp EXCEPT ![p] = FreeCell]
Release(hp, p) ==
    IF p = NULL THEN hp
    ELSE IF hp[p].useCount - 1 = 0 THEN [hp EXCEPT ![p] = FreeCell]
    ELSE [hp EXCEPT ![p].useCount = @ - 1]

\* Number of shared_ptr objects that refer to array b
Holders(rp, sl, b) ==
    Cardinality({r \in Reps : rp[r].alive /\ rp[r].tattooTemplate = b})
    + Cardinality({s \in Slots : sl[s] = b})

\* --------------------------------------------------------- TattooRep
\* TattooRep::TattooRep()
NewTattooRep ==
    [alive |-> TRUE, tattooTemplate |-> NULL, templateSize |-> 0,
     boundingBoxes |-> <<>>]

DeadTattooRep ==
    [alive |-> FALSE, tattooTemplate |-> NULL, templateSize |-> 0,
     boundingBoxes |-> <<>>]

NoBoxes == [ref |-> NoRep, val |-> <<>>]

\* The last call made on a TattooRep and how it ended
\* (prev: the handle the TattooRep held when resizeTemplate was entered)
Returned(opname, r, v) ==
    [op |-> opname, rep |-> r, threw |-> FALSE, val |-> v, prev |-> NULL]
Resized(r, v, old) ==
    [op |-> "resizeTemplate", rep |-> r, threw |-> FALSE, val |-> v,
     prev |-> old]
Thrown(opname, r) ==
    [op |-> opname, rep |-> r, threw |-> TRUE, val |-> 0, prev |-> NULL]
NoRet == Returned("none", NoRep, 0)

\* return tattooTemplate;
TemplatePtrOf(t) == t.tattooTemplate

\* return templateSize;
TemplateSizeOf(t) == t.templateSize

\* return boundingBoxes;
BoxesOf(t) == t.boundingBoxes

\* The caller's variable dst receives a shared_ptr returned by value
\* (dst = NoSlot: the returned temporary is discarded).
StoreHandle(hp, sl, p, dst) ==
    IF dst = NoSlot THEN Release(Acquire(hp, p), p)
    ELSE Release(Acquire(hp, p), sl[dst])

StoreSlot(sl, p, dst) ==
    IF dst = NoSlot THEN sl ELSE [sl EXCEPT ![dst] = p]

\* Members of the TattooRep after the size > 0 branch
Grown_KeepSize(t, data, size) == [t EXCEPT !.tattooTemplate = data]
Grown(t, data, size) ==
    [t EXCEPT !.tattooTemplate = data, !.templateSize = size]

\* Members of the TattooRep after the size == 0 branch
Cleared_KeepPtr(t) == [t EXCEPT !.templateSize = 0]
Cleared_ClearsBoxes(t) ==
    [t EXCEPT !.tattooTemplate = NULL, !.templateSize = 0,
              !.boundingBoxes = <<>>]
Cleared(t) == [t EXCEPT !.tattooTemplate = NULL, !.templateSize = 0]

\* resizeTemplate(size), size > 0, allocation succeeds
resizeTemplateAlloc(r, size, dst) ==
    /\ rep[r].alive
    /\ size > 0
    /\ FreeIds(heap) # {}
    /\ LET data == NewAddress(heap)
           old == rep[r].tattooTemplate
           oldData == IF old = NULL THEN <<>> ELSE heap[old].data
           h1 == [heap EXCEPT ![data] =
                    [live |-> TRUE, data |-> ResizedData(oldData, size),
                     useCount |-> 0]]
           \* tattooTemplate.reset(data, default_delete<uint8_t[]>())
           h2 == Release(Acquire(h1, data), old)
           t == Grown(rep[r], data, size)
       IN  /\ heap' = StoreHandle(h2, slot, TemplatePtrOf(t), dst)
           /\ rep' = [rep EXCEPT ![r] = t]
           /\ slot' = StoreSlot(slot, TemplatePtrOf(t), dst)
           /\ ret' = Resized(r, TemplatePtrOf(t), old)
    /\ UNCHANGED <<callerBoxes, passed, img, sizeRet>>

\* resizeTemplate(size), size > 0, new throws std::bad_alloc
resizeTemplateThrow_ResetFirst(r, size) ==
    /\ rep[r].alive
    /\ size > 0
    /\ heap' = Release(heap, rep[r].tattooTemplate)
    /\ rep' = [rep EXCEPT ![r].tattooTemplate = NULL]
    /\ ret' = Thrown("resizeTemplate", r)
    /\ UNCHANGED <<slot, callerBoxes, passed, img, sizeRet>>
resizeTemplateThrow(r, size) ==
    /\ rep[r].alive
    /\ size > 0
    /\ ret' = Thrown("resizeTemplate", r)
    /\ UNCHANGED <<heap, rep, slot, callerBoxes, passed, img, sizeRet>>

\* resizeTemplate(0)
resizeTemplateZero(r, dst) ==
    /\ rep[r].alive
    /\ LET old == rep[r].tattooTemplate
           h1 == Release(heap, old)
           t == Cleared(rep[r])
       IN  /\ heap' = StoreHandle(h1, slot, TemplatePtrOf(t), dst)
           /\ rep' = [rep EXCEPT ![r] = t]
           /\ slot' = StoreSlot(slot, TemplatePtrOf(t), dst)
           /\ ret' = Resized(r, TemplatePtrOf(t), old)
    /\ UNCHANGED <<callerBoxes, passed, img, sizeRet>>

\* boundingBoxes.push_back(bb)
PushBack_Front(v, bb) == <<bb>> \o v
PushBack(v, bb) == Append(v, bb)

addBoundingBox(r, bb) ==
    /\ rep[r].alive
    /\ Len(rep[r].boundingBoxes) < MaxBoxes
    /\ rep' = [rep EXCEPT ![r].boundingBoxes = PushBack(@, bb)]
    /\ passed' = [passed EXCEPT ![r] = Append(@, bb)]
    /\ ret' = Returned("addBoundingBox", r, 0)
    /\ UNCHANGED <<heap, slot, callerBoxes, img, sizeRet>>

getTattooTemplatePtr(r, dst) ==
    /\ rep[r].alive
    /\ heap' = StoreHandle(heap, slot, TemplatePtrOf(rep[r]), dst)
    /\ slot' = StoreSlot(slot, TemplatePtrOf(rep[r]), dst)
    /\ ret' = Returned("getTattooTemplatePtr", r, TemplatePtrOf(rep[r]))
    /\ UNCHANGED <<rep, callerBoxes, passed, img, sizeRet>>

getTemplateSize(r) ==
    /\ rep[r].alive
    /\ ret' = Returned("getTemplateSize", r, TemplateSizeOf(rep[r]))
    /\ UNCHANGED <<heap, rep, slot, callerBoxes, passed, img, sizeRet>>

\* The std::vector object the caller receives from getBoundingBoxes():
\* returned by value, so it is a vector of its own (ref = NoRep), not a
\* reference into the TattooRep.
ReturnedBoxes_ByReference(r) == [ref |-> r, val |-> <<>>]
ReturnedBoxes(r) == [ref |-> NoRep, val |-> BoxesOf(rep[r])]

getBoundingBoxes(r) ==
    /\ rep[r].alive
    /\ callerBoxes' = ReturnedBoxes(r)
    /\ ret' = Returned("getBoundingBoxes", r, 0)
    /\ UNCHANGED <<heap, rep, slot, passed, img, sizeRet>>

\* What the caller sees in the vector it received
CallerView ==
    IF callerBoxes.ref = NoRep THEN callerBoxes.val
    ELSE rep[callerBoxes.ref].boundingBoxes

\* ------------------------------------------------------------ callers
\* The caller overwrites the vector it got from getBoundingBoxes()
ModifyReturnedBoxes(v) ==
    /\ ret.op = "getBoundingBoxes"
    /\ v # CallerView
    /\ IF callerBoxes.ref = NoRep
       THEN /\ callerBoxes' = [callerBoxes EXCEPT !.val = v]
            /\ UNCHANGED rep
       ELSE /\ rep' = [rep EXCEPT ![callerBoxes.ref].boundingBoxes = v]
            /\ UNCHANGED callerBoxes
    /\ UNCHANGED <<heap, slot, ret, passed, img, sizeRet>>

\* The vendor implementation fills the template through its handle
WriteTemplate(s, v) ==
    /\ slot[s] # NULL
    /\ heap[slot[s]].data # [i \in 1..Len(heap[slot[s]].data) |-> v]
    /\ heap' = [heap EXCEPT ![slot[s]].data =
                  [i \in 1..Len(heap[slot[s]].data) |-> v]]
    /\ UNCHANGED <<rep, slot, ret, callerBoxes, passed, img, sizeRet>>

\* A handle held by the caller goes out of scope
DropHandle(s) ==
    /\ slot[s] # NULL
    /\ heap' = Release(heap, slot[s])
    /\ slot' = [slot EXCEPT ![s] = NULL]
    /\ UNCHANGED <<rep, ret, callerBoxes, passed, img, sizeRet>>

\* Implicit copy assignment dst = src of TattooRep (member-wise)
CopyAssign(src, dst) ==
    /\ src # dst
    /\ rep[src].alive /\ rep[dst].alive
    /\ rep[src] # rep[dst]
    /\ heap' = Release(Acquire(heap, rep[src].tattooTemplate),
                       rep[dst].tattooTemplate)
    /\ rep' = [rep EXCEPT ![dst] = rep[src]]
    /\ passed' = [passed EXCEPT ![dst] = passed[src]]
    /\ UNCHANGED <<slot, ret, callerBoxes, img, sizeRet>>

\* Implicit destructor of TattooRep
Destroy(r) ==
    /\ rep[r].alive
    /\ heap' = Release(heap, rep[r].tattooTemplate)
    /\ rep' = [rep EXCEPT ![r] = DeadTattooRep]
    /\ passed' = [passed EXCEPT ![r] = <<>>]
    /\ ret' = Returned("~TattooRep", r, 0)
    /\ UNCHANGED <<slot, callerBoxes, img, sizeRet>>

\* A TattooRep is default-constructed in the place of a destroyed one
Construct(r) ==
    /\ ~rep[r].alive
    /\ rep' = [rep EXCEPT ![r] = NewTattooRep]
    /\ ret' = Returned("TattooRep", r, 0)
    /\ UNCHANGED <<heap, slot, callerBoxes, passed, img, sizeRet>>

InitRep ==
    /\ heap = [b \in BufIds |-> FreeCell]
    /\ rep = [r \in Reps |-> NewTattooRep]
    /\ slot = [s \in Slots |-> NULL]
    /\ ret = NoRet
    /\ callerBoxes = NoBoxes
    /\ passed = [r \in Reps |-> <<>>]

\* The template buffer, the handles a caller keeps, and copies of a TattooRep
Next ==
    \/ \E r \in Reps, size \in 1..MaxSize, dst \in Slots \cup {NoSlot} :
         resizeTemplateAlloc(r, size, dst)
    \/ \E r \in Reps, size \in 1..MaxSize : resizeTemplateThrow(r, size)
    \/ \E r \in Reps, dst \in Slots \cup {NoSlot} : resizeTemplateZero(r, dst)
    \/ \E r \in Reps, dst \in Slots \cup {NoSlot} : getTattooTemplatePtr(r, dst)
    \/ \E r \in Reps : getTemplateSize(r)
    \/ \E s \in Slots, v \in ByteSamples : WriteTemplate(s, v)
    \/ \E s \in Slots : DropHandle(s)
    \/ \E src \in Reps, dst \in Reps : CopyAssign(src, dst)

\* The public methods of TattooRep called in any serial order on one object
BoxReps == {"a"}

BoxNext ==
    \/ \E r \in BoxReps, size \in 1..MaxSize, dst \in Slots \cup {NoSlot} :
         resizeTemplateAlloc(r, size, dst)
    \/ \E r \in BoxReps, size \in 1..MaxSize : resizeTemplateThrow(r, size)
    \/ \E r \in BoxReps, dst \in Slots \cup {NoSlot} : resizeTemplateZero(r, dst)
    \/ \E r \in BoxReps, bb \in BoxSamples : addBoundingBox(r, bb)
    \/ \E r \in BoxReps, dst \in Slots \cup {NoSlot} :
         getTattooTemplatePtr(r, dst)
    \/ \E r \in BoxReps : getTemplateSize(r)
    \/ \E r \in BoxReps : getBoundingBoxes(r)
    \/ \E v \in SeqsUpTo(BoxSamples, MaxBoxes) : ModifyReturnedBoxes(v)

\* TattooReps from construction to destruction, their copies, and the
\* handles to their buffers
LifeNext ==
    \/ \E r \in Reps, size \in 1..MaxSize, dst \in Slots \cup {NoSlot} :
         resizeTemplateAlloc(r, size, dst)
    \/ \E r \in Reps, size \in 1..MaxSize : resizeTemplateThrow(r, size)
    \/ \E r \in Reps, dst \in Slots \cup {NoSlot} : resizeTemplateZero(r, dst)
    \/ \E r \in Reps, dst \in Slots \cup {NoSlot} :
         getTattooTemplatePtr(r, dst)
    \/ \E s \in Slots, v \in ByteSamples : WriteTemplate(s, v)
    \/ \E s \in Slots : DropHandle(s)
    \/ \E src \in Reps, dst \in Reps : CopyAssign(src, dst)
    \/ \E r \in Reps : Destroy(r)
    \/ \E r \in Reps : Construct(r)

\* ------------------------------------------------------------- Image
\* Arguments callers pass for widthin / heightin and for depthin
DimArgs == {0, 1, 3, 255, 256, 26755, 46341, 65535, 65538}
DepthArgs == {0, 8, 16, 24, 255, 264}

\* Conversion of an argument to uint16_t / uint8_t
ToU16(x) == x % 65536
ToU8(x) == x % 256

\* depth{depthin}: the uint8_t argument widened to the uint16_t member
CtorDepth_Validated(depthin) == IF depthin \in {8, 24} THEN depthin ELSE 24
CtorDepth(depthin) == depthin

\* size() has not been called on the Image
NoSize == [called |-> FALSE, trapped |-> FALSE, val |-> <<0, 0, 0, 0>>]

\* Image()
ImageDefault ==
    /\ img' = [width |-> 0, height |-> 0, depth |-> 24,
               by |-> "Image()", depthin |-> 0]
    /\ sizeRet' = NoSize
    /\ UNCHANGED repVars

\* Image(widthin, heightin, depthin, typein, datain)
ImageCtor(widthin, heightin, depthin) ==
    /\ img' = [width |-> ToU16(widthin), height |-> ToU16(heightin),
               depth |-> CtorDepth(ToU8(depthin)),
               by |-> "Image(5)", depthin |-> depthin]
    /\ sizeRet' = NoSize
    /\ UNCHANGED repVars

\* Natural numbers too large for one machine word of the checker are kept
\* as hi * 65536 + lo with 0 <= lo < 65536.
\* a * b for a, b in 0..65535
Mul16(a, b) ==
    LET ah == a \div 256
        al == a % 256
        bh == b \div 256
        bl == b % 256
        m == ah * bl + al * bh
        lo_raw == (m % 256) * 256 + al * bl
    IN  [hi |-> ah * bh + m \div 256 + lo_raw \div 65536,
         lo |-> lo_raw % 65536]

\* x * k for small k
Scale(x, k) ==
    LET l == x.lo * k
    IN  [hi |-> x.hi * k + l \div 65536, lo |-> l % 65536]

\* The value fits int (32 bits, two's complement)
FitsInt(x) == x.hi < 32768

\* int arithmetic that wraps: the low 32 bits
Wrap32(x) == [hi |-> x.hi % 65536, lo |-> x.lo]

\* A non-negative value as size_t (64 bits), most significant limb first
AsSizeT(x) == <<0, x.hi \div 65536, x.hi % 65536, x.lo>>

\* Conversion of a 32-bit int bit pattern to size_t: sign extension
IntToSizeT(x) ==
    IF x.hi >= 32768 THEN <<65535, 65535, x.hi, x.lo>>
    ELSE <<0, 0, x.hi, x.lo>>

\* width * height * (depth / 8) as a mathematical integer
ExactSize(im) == Scale(Mul16(im.width, im.height), im.depth \div 8)

\* The int expression overflows (undefined behaviour)
SizeOverflows(im) ==
    \/ ~FitsInt(Mul16(im.width, im.height))
    \/ ~FitsInt(ExactSize(im))

\* The same expression computed in wrapping 32-bit int arithmetic
WrappedSize(im) ==
    Wrap32(Scale(Wrap32(Mul16(im.width, im.height)), im.depth \div 8))

\* Outcomes of size(): the operands are promoted to int; on overflow the
\* behaviour is undefined and a build wraps, computes in a wider register,
\* or traps.
SizeOutcomes(im) ==
    IF ~SizeOverflows(im)
    THEN {[called |-> TRUE, trapped |-> FALSE,
           val |-> IntToSizeT(ExactSize(im))]}
    ELSE {[called |-> TRUE, trapped |-> FALSE,
           val |-> IntToSizeT(WrappedSize(im))],
          [called |-> TRUE, trapped |-> FALSE, val |-> AsSizeT(ExactSize(im))],
          [called |-> TRUE, trapped |-> TRUE, val |-> <<0, 0, 0, 0>>]}

\* size() const
ImageSize ==
    /\ \E out \in SizeOutcomes(img) : sizeRet' = out
    /\ UNCHANGED <<img, heap, rep, slot, ret, callerBoxes, passed>>

InitImg ==
    /\ img = [width |-> 0, height |-> 0, depth |-> 24,
              by |-> "Image()", depthin |-> 0]
    /\ sizeRet = NoSize

ImageNext ==
    \/ ImageDefault
    \/ \E widthin \in DimArgs, heightin \in DimArgs, depthin \in DepthArgs :
         ImageCtor(widthin, heightin, depthin)
    \/ ImageSize

Init == InitRep /\ InitImg

Spec == Init /\ [][Next]_vars

BoxSpec == Init /\ [][BoxNext]_vars

LifeSpec == Init /\ [][LifeNext]_vars

ImageSpec == Init /\ [][ImageNext]_vars

\* =================================================================
\* Properties
\* =================================================================
AnySlot == Slots \cup {NoSlot}

\* The step is a return from resizeTemplate on r
ResizeReturned(r) ==
    ret'.op = "resizeTemplate" /\ ret'.rep = r /\ ~ret'.threw

\* C1: whenever resizeTemplate(size) with size > 0 returns, on any prior
\* state, the handle it returns is non-null and refers to an array that was
\* not allocated before the call and is exactly size bytes long; the
\* TattooRep's getTattooTemplatePtr() then yields that same array and
\* getTemplateSize() yields size.
C1_ResizeAllocatesExactly ==
    [][\A r \in Reps, size \in 1..MaxSize, dst \in AnySlot :
         (ResizeReturned(r) /\ resizeTemplateAlloc(r, size, dst)) =>
           /\ ~ret'.threw
           /\ ret'.val # NULL
           /\ ~heap[ret'.val].live
           /\ heap'[ret'.val].live
           /\ Len(heap'[ret'.val].data) = size
           /\ TemplatePtrOf(rep'[r]) = ret'.val
           /\ TemplateSizeOf(rep'[r]) = size
           /\ (dst # NoSlot => slot'[dst] = ret'.val)]_vars

C1_Witness ==
    /\ ret.op = "resizeTemplate" /\ ~ret.threw
    /\ ret.val # NULL /\ ret.prev # NULL
    /\ rep[ret.rep].alive
    /\ TemplatePtrOf(rep[ret.rep]) = ret.val
    /\ TemplateSizeOf(rep[ret.rep]) = MaxSize
    /\ Len(heap[ret.val].data) = MaxSize

\* C2: resizeTemplate(0), on a fresh TattooRep or on one holding an array of
\* any size, returns a null handle and leaves getTattooTemplatePtr() null
\* and getTemplateSize() 0.
C2_ResizeZeroClears ==
    [][\A r \in Reps, dst \in AnySlot :
         (ResizeReturned(r) /\ resizeTemplateZero(r, dst)) =>
           /\ ~ret'.threw
           /\ ret'.val = NULL
           /\ TemplatePtrOf(rep'[r]) = NULL
           /\ TemplateSizeOf(rep'[r]) = 0
           /\ (dst # NoSlot => slot'[dst] = NULL)]_vars

C2_Witness ==
    /\ ret.op = "resizeTemplate" /\ ~ret.threw
    /\ ret.val = NULL /\ ret.prev # NULL
    /\ rep[ret.rep].alive
    /\ TemplatePtrOf(rep[ret.rep]) = NULL
    /\ TemplateSizeOf(rep[ret.rep]) = 0

\* C3: getBoundingBoxes() returns exactly the boxes passed to addBoundingBox
\* since construction, in call order, duplicates kept, also when none was
\* passed and when resizeTemplate calls are interleaved.
C3_BoxesInCallOrder ==
    [][\A r \in Reps :
         getBoundingBoxes(r) =>
           /\ callerBoxes'.ref = NoRep
           /\ callerBoxes'.val = passed[r]]_vars

C3_Witness ==
    /\ ret.op = "getBoundingBoxes"
    /\ callerBoxes.val = passed[ret.rep]
    /\ Len(callerBoxes.val) = MaxBoxes
    /\ callerBoxes.val[1] # callerBoxes.val[MaxBoxes]
    /\ TemplateSizeOf(rep[ret.rep]) > 0

\* C4: resizeTemplate(m), m > 0, on a TattooRep that already holds an array
\* leaves it holding a newly allocated array, distinct from the previous one,
\* of m bytes, every byte of which is indeterminate (nothing of the previous
\* contents is copied into it).
C4_ResizeReplaces ==
    [][\A r \in Reps, size \in 1..MaxSize, dst \in AnySlot :
         (/\ ResizeReturned(r)
          /\ TemplatePtrOf(rep[r]) # NULL
          /\ resizeTemplateAlloc(r, size, dst)) =>
           /\ TemplatePtrOf(rep'[r]) # NULL
           /\ TemplatePtrOf(rep'[r]) # TemplatePtrOf(rep[r])
           /\ ~heap[TemplatePtrOf(rep'[r])].live
           /\ heap'[TemplatePtrOf(rep'[r])].live
           /\ TemplateSizeOf(rep'[r]) = size
           /\ Len(heap'[TemplatePtrOf(rep'[r])].data) = size
           /\ \A i \in 1..size :
                heap'[TemplatePtrOf(rep'[r])].data[i] = Undef]_vars

C4_Witness ==
    /\ ret.op = "resizeTemplate" /\ ~ret.threw
    /\ ret.val # NULL /\ ret.prev # NULL /\ ret.prev # ret.val
    /\ rep[ret.rep].alive
    /\ TemplatePtrOf(rep[ret.rep]) = ret.val
    /\ heap[ret.prev].live
    /\ \E i \in 1..Len(heap[ret.prev].data) : heap[ret.prev].data[i] # Undef
    /\ \A i \in 1..Len(heap[ret.val].data) : heap[ret.val].data[i] = Undef

\* C5 as stated: the array a TattooRep holds has the TattooRep as its only
\* owner (no caller handle and no other TattooRep refers to it).
C5_ExclusiveOwner ==
    \A r \in Reps :
       (rep[r].alive /\ TemplatePtrOf(rep[r]) # NULL) =>
          Holders(rep, slot, TemplatePtrOf(rep[r])) = 1

\* C5 (amended): ownership of the array is shared by reference counting:
\* the array a TattooRep holds is live, every live array's use count is the
\* number of handles that refer to it (the TattooRep's, its copies', and the
\* handles callers keep from resizeTemplate / getTattooTemplatePtr), and no
\* handle refers to a released array.
C5_SharedOwnership ==
    /\ \A r \in Reps :
          (rep[r].alive /\ TemplatePtrOf(rep[r]) # NULL) =>
             heap[TemplatePtrOf(rep[r])].live
    /\ \A b \in BufIds :
          /\ heap[b].live =>
               (heap[b].useCount >= 1
                /\ heap[b].useCount = Holders(rep, slot, b))
          /\ ~heap[b].live => Holders(rep, slot, b) = 0

C5_Witness ==
    /\ rep["a"].alive /\ rep["b"].alive
    /\ TemplatePtrOf(rep["a"]) # NULL
    /\ TemplatePtrOf(rep["b"]) = TemplatePtrOf(rep["a"])
    /\ slot["h1"] = TemplatePtrOf(rep["a"])
    /\ heap[TemplatePtrOf(rep["a"])].useCount = 3

\* C6 as stated: a resizeTemplate call on a TattooRep that holds an array
\* deallocates that array during the call, whatever handles exist.
C6_ResizeDeallocates ==
    [][\A r \in Reps, dst \in AnySlot :
         (/\ ResizeReturned(r)
          /\ TemplatePtrOf(rep[r]) # NULL
          /\ \/ \E size \in 1..MaxSize : resizeTemplateAlloc(r, size, dst)
             \/ resizeTemplateZero(r, dst)) =>
            ~heap'[TemplatePtrOf(rep[r])].live]_vars

\* C6 (amended): a resizeTemplate call on a TattooRep that holds an array
\* makes the TattooRep give up its handle to it; the array is deallocated
\* during the call exactly when no other handle (a caller's, or a copy of
\* the TattooRep) still refers to it after the call.
C6_ResizeDropsOwnReference ==
    [][\A r \in Reps, dst \in AnySlot :
         (/\ ResizeReturned(r)
          /\ TemplatePtrOf(rep[r]) # NULL
          /\ \/ \E size \in 1..MaxSize : resizeTemplateAlloc(r, size, dst)
             \/ resizeTemplateZero(r, dst)) =>
            /\ TemplatePtrOf(rep'[r]) # TemplatePtrOf(rep[r])
            /\ heap'[TemplatePtrOf(rep[r])].live
                 <=> Holders(rep', slot', TemplatePtrOf(rep[r])) > 0]_vars

C6_Witness ==
    /\ ret.op = "resizeTemplate" /\ ~ret.threw
    /\ ret.prev # NULL /\ ret.prev # ret.val
    /\ rep[ret.rep].alive
    /\ TemplatePtrOf(rep[ret.rep]) = ret.val
    /\ slot["h1"] = ret.prev
    /\ heap[ret.prev].live
    /\ heap[ret.prev].useCount = 1

\* C7: for width, height in 0..65535 and depth 8 or 24, size() returns the
\* exact product width * height * (depth / 8).
C7_SizeIsExactProduct ==
    (sizeRet.called /\ img.depth \in {8, 24}) =>
       (~sizeRet.trapped /\ sizeRet.val = AsSizeT(ExactSize(img)))

\* C8 as stated: every Image has depth 8 or 24.
C8_DepthLegal == img.depth \in {8, 24}

\* C8 (amended): a default-constructed Image has depth 24, an Image built
\* with the five-argument constructor has the depth it was given (any value
\* of 0..255), and size() leaves the depth as it is.
C8_DepthAsGiven ==
    /\ img.by = "Image()" => img.depth = 24
    /\ img.by = "Image(5)" => img.depth = ToU8(img.depthin)

C8_Witness ==
    /\ img.by = "Image(5)"
    /\ img.depth = 16
    /\ sizeRet.called

\* C9: getTattooTemplatePtr, getTemplateSize and getBoundingBoxes leave the
\* handle, the size and the box list of every TattooRep unchanged, and so
\* does a modification of the list returned by getBoundingBoxes.
Members(t) == <<t.alive, t.tattooTemplate, t.templateSize, t.boundingBoxes>>

C9_AccessorsPure ==
    [][(\E r \in Reps : Members(rep'[r]) # Members(rep[r]))
       => ~(\/ \E r \in Reps, dst \in AnySlot : getTattooTemplatePtr(r, dst)
            \/ \E r \in Reps : getTemplateSize(r)
            \/ \E r \in Reps : getBoundingBoxes(r)
            \/ \E v \in SeqsUpTo(BoxSamples, MaxBoxes) :
                  ModifyReturnedBoxes(v))]_vars

C9_Witness ==
    /\ ret.op = "getBoundingBoxes"
    /\ callerBoxes.ref = NoRep
    /\ Len(BoxesOf(rep[ret.rep])) > 0
    /\ callerBoxes.val # BoxesOf(rep[ret.rep])
    /\ BoxesOf(rep[ret.rep]) = passed[ret.rep]

\* C10: in every reachable state getTemplateSize() is the allocated length
\* of the array the TattooRep holds, and the handle is null exactly when the
\* size is 0.
C10_SizeMatchesBuffer ==
    \A r \in Reps :
       rep[r].alive =>
          /\ TemplatePtrOf(rep[r]) = NULL <=> TemplateSizeOf(rep[r]) = 0
          /\ TemplatePtrOf(rep[r]) # NULL =>
               /\ heap[TemplatePtrOf(rep[r])].live
               /\ Len(heap[TemplatePtrOf(rep[r])].data)
                    = TemplateSizeOf(rep[r])

C10_Witness ==
    /\ ret.op = "addBoundingBox"
    /\ Len(BoxesOf(rep[ret.rep])) = MaxBoxes
    /\ TemplatePtrOf(rep[ret.rep]) # NULL
    /\ TemplateSizeOf(rep[ret.rep]) = MaxSize
    /\ Len(heap[TemplatePtrOf(rep[ret.rep])].data) = MaxSize

\* C11: an array allocated by resizeTemplate is deallocated only by the step
\* that removes the last handle to it and is never released again afterwards
\* (a released cell is back in its free state, with no owner counted and no
\* handle referring to it); while any handle remains the array stays
\* allocated, so a handle kept by the caller stays valid, with the array's
\* contents intact, across resizeTemplate(n), resizeTemplate(0) and the
\* destruction of the TattooRep; and an array to which no handle remains is
\* not left allocated.
C11_FreedWithLastHandle ==
    /\ [](\A b \in BufIds :
            /\ heap[b].live => Holders(rep, slot, b) >= 1
            /\ ~heap[b].live =>
                 (heap[b] = FreeCell /\ Holders(rep, slot, b) = 0))
    /\ [][\A b \in BufIds :
            /\ (heap[b].live /\ ~heap'[b].live) =>
                 /\ Holders(rep, slot, b) >= 1
                 /\ Holders(rep', slot', b) = 0
            /\ \A s \in Slots :
                 (slot[s] = b /\ slot'[s] = b) =>
                    /\ heap'[b].live
                    /\ \/ heap'[b].data = heap[b].data
                       \/ \E v \in ByteSamples : WriteTemplate(s, v)]_vars

C11_Witness ==
    /\ ret.op = "~TattooRep"
    /\ ~rep[ret.rep].alive
    /\ slot["h1"] # NULL
    /\ heap[slot["h1"]].live
    /\ heap[slot["h1"]].useCount = 1
    /\ \A i \in 1..Len(heap[slot["h1"]].data) :
          heap[slot["h1"]].data[i] # Undef
    /\ \E b \in BufIds : ~heap[b].live

\* C12: addBoundingBox leaves the handle, the recorded size and the heap as
\* they are, and a resizeTemplate call (size > 0 returning or throwing, or
\* size 0) leaves the bounding-box list as it is: no step that changes the
\* former is an addBoundingBox step, no step that changes the latter is a
\* resizeTemplate step.
C12_BufferAndBoxesIndependent ==
    [][\A r \in Reps :
         /\ (\/ TemplatePtrOf(rep'[r]) # TemplatePtrOf(rep[r])
             \/ TemplateSizeOf(rep'[r]) # TemplateSizeOf(rep[r])
             \/ heap' # heap
             \/ slot' # slot) =>
               ~(\E bb \in BoxSamples : addBoundingBox(r, bb))
         /\ BoxesOf(rep'[r]) # BoxesOf(rep[r]) =>
               ~(\/ \E size \in 1..MaxSize, dst \in AnySlot :
                      resizeTemplateAlloc(r, size, dst)
                 \/ \E size \in 1..MaxSize : resizeTemplateThrow(r, size)
                 \/ \E dst \in AnySlot : resizeTemplateZero(r, dst))]_vars

C12_Witness ==
    /\ ret.op = "resizeTemplate" /\ ~ret.threw
    /\ ret.val = NULL /\ ret.prev # NULL
    /\ rep[ret.rep].alive
    /\ Len(BoxesOf(rep[ret.rep])) = MaxBoxes
    /\ BoxesOf(rep[ret.rep]) = passed[ret.rep]
    /\ TemplateSizeOf(rep[ret.rep]) = 0

\* C13: when the allocation inside resizeTemplate(size), size > 0, fails
\* (new throws), the TattooRep keeps the handle, the size and the
\* bounding-box list it had, and the heap and the caller's handles are as
\* before the call.
C13_FailedAllocationNoEffect ==
    [][\A r \in Reps, size \in 1..MaxSize :
         (ret'.threw /\ resizeTemplateThrow(r, size)) =>
            /\ Members(rep'[r]) = Members(rep[r])
            /\ heap' = heap
            /\ slot' = slot]_vars

C13_Witness ==
    /\ ret.op = "resizeTemplate" /\ ret.threw
    /\ rep[ret.rep].alive
    /\ TemplatePtrOf(rep[ret.rep]) # NULL
    /\ heap[TemplatePtrOf(rep[ret.rep])].live
    /\ TemplateSizeOf(rep[ret.rep]) = MaxSize
    /\ Len(BoxesOf(rep[ret.rep])) = MaxBoxes

====
